---- MODULE Spec2Model ----
(***************************************************************************)
(* Model of gateway.py: the RSS -> WordPress publishing pipeline.          *)
(*                                                                         *)
(* One invocation of main() is a process p.  Its steps are the blocking    *)
(* I/O operations of the code, in program order:                           *)
(*   _init_database, _verify_auth, fetch_rss_feed, and per entry of        *)
(*   reversed(feed.entries): _is_item_published, create_post,              *)
(*   _record_published_item.                                               *)
(* The SQLite table published_items is the set of rows `ledger`; the       *)
(* remote service, the feed parser and the database driver are the         *)
(* environment: their answers are chosen with \E from the answers the code *)
(* distinguishes.                                                          *)
(***************************************************************************)
EXTENDS Integers, Sequences, FiniteSets, TLC

\* ---- bounds --------------------------------------------------------------
MaxFeed == 2        \* longest feed (number of entries) the parser returns
MaxOverlapFeed == 2 \* longest feed two overlapping invocations read
MaxRuns == 2        \* invocations of main() started in one behaviour
MaxChunks == 5      \* longest raw content, in chunks of text
MaxTags == 2        \* most tags of an entry

\* ---- value sets ----------------------------------------------------------
Procs  == {1, 2}
Links  == {"", "a"}
Titles == {"t1"}
Ids    == {1, 2}             \* sample post ids the remote service assigns

\* A feed entry as post_feed_items reads it: entry.get('link', ''),
\* entry.get('title', ''), entry.get('published', now).
Entries == [link : Links, title : Titles, published : {"d1"}]

RECURSIVE SeqsUpTo(_, _)
SeqsUpTo(S, n) ==
    IF n = 0 THEN {<<>>}
    ELSE LET shorter == SeqsUpTo(S, n - 1)
         IN  shorter \cup {Append(s, x) : s \in {t \in shorter : Len(t) = n - 1}, x \in S}

Feeds == SeqsUpTo(Entries, MaxFeed)

OverlapFeeds == SeqsUpTo(Entries, MaxOverlapFeed)

\* The settings main() reads from the environment with os.getenv; a variable
\* that is not set reads as None.
ConfigKeys == {"PINBOARD_TAG_PREFIX", "WORDPRESS_URL", "USERNAME", "APP_PASSWORD",
               "RSS_FEED_URL", "DB_PATH"}

\* Answers of GET /users/me that _verify_auth distinguishes.
AuthResponses == {"ok", "401", "http_error", "transport_error"}

\* Answers of feedparser.parse that fetch_rss_feed distinguishes.
FetchOutcomes == {"feed", "bozo", "raises"}

\* Answers of POST /posts that create_post and its caller distinguish:
\*   ok_id     success status, JSON body with an 'id'
\*   ok_noid   success status, non-empty JSON object without 'id'
\*   ok_nodict success status, truthy JSON body that is no object ([1], "queued", 5)
\*   ok_falsy  success status, JSON body that is falsy in Python ({}, [], 0, null)
\*             (a body that is no JSON makes response.json() raise requests'
\*             JSONDecodeError, a RequestException, and create_post return None:
\*             for the caller the same case)
PostResponses == {"ok_id", "ok_noid", "ok_nodict", "ok_falsy", "401", "http_error",
                  "transport_error"}
PostSuccess   == {"ok_id", "ok_noid", "ok_nodict", "ok_falsy"}

None == [none |-> TRUE]

VARIABLES
    NO_POST,    \* the module flag NO_POST
    missing,    \* the environment variable that is not set ("none": all are set)
    raw,        \* transformer: the entry's content as the feed gives it
    tags,       \* transformer: the entry's tags
    content,    \* transformer: the content after _clean_content
    post,       \* transformer: what create_post_dict built
    tpc,        \* transformer: the step it is about to perform
    ledger,     \* rows of table published_items
    posted,     \* history: per link, posts the remote service created (0, 1, 2 = many)
    runs,       \* number of invocations of main() started so far
    pc,         \* per process: the operation it is about to perform
    feed,       \* per process: feed.entries of this run
    idx,        \* per process: number of the loop iteration (1 = first entry visited)
    result,     \* per process: value returned by create_post
    calls,      \* history, per process: create_post calls of this run, in order
    prevFailed, \* history, per process: links whose create_post failed in its previous run
    atStart,    \* history, per process: the ledger when this run started
    startupFault, \* history, per process: what failed in __init__ ("none" if nothing)
    fetchOutcome, \* history, per process: what the feed parser did in this run
    queryError, \* history, per process: the existence query of the current entry raised
    filtered,   \* history, per process: number of _is_item_published calls of this run
    escaped     \* history, per process: which exception reached main()'s handler

\* the variables of the transformer
tvars == <<raw, tags, content, post, tpc>>

vars == <<NO_POST, missing, tvars, ledger, posted, runs, pc, feed, idx, result, calls,
          prevFailed, atStart, startupFault, fetchOutcome, queryError,
          filtered, escaped>>

\* ---- the ledger ----------------------------------------------------------
RowsFor(link) == {r \in ledger : r.link = link}

HasRow(link) == RowsFor(link) # {}

\* faulty variant: the check does not look at NO_POST
IsItemPublished_NoBypass(link, dbOk) == IF dbOk THEN HasRow(link) ELSE FALSE

\* faulty variant: the filter never consults the store
IsItemPublished_Mut(link, dbOk) == FALSE

\* _is_item_published(link); dbOk = FALSE: the query raised sqlite3.Error
IsItemPublished(link, dbOk) ==
    IF NO_POST THEN FALSE
    ELSE IF dbOk THEN HasRow(link)
    ELSE FALSE

\* faulty variant: the table is dropped and created anew
CreateTableIfNotExists_Mut(rows) == {}

\* CREATE TABLE IF NOT EXISTS published_items: an existing table keeps its rows
\* (a store without the table is the empty set of rows)
CreateTableIfNotExists(rows) == rows

\* faulty variant: the table has no primary key
PrimaryKeyViolation_Mut(link) == FALSE

\* The INSERT of _record_published_item is rejected by the PRIMARY KEY
\* constraint on link when a row for the link exists.
PrimaryKeyViolation(link) == HasRow(link)

\* faulty variant: INSERT OR REPLACE, the new values overwrite the row of the link
RecordPublishedItem_Mut(link, title, published_date, wordpress_post_id, dbOk) ==
    IF NO_POST THEN ledger
    ELSE IF ~dbOk THEN ledger
    ELSE (ledger \ RowsFor(link))
            \cup {[link |-> link, title |-> title,
                   published_date |-> published_date,
                   wordpress_post_id |-> wordpress_post_id]}

\* faulty variant: conn.commit() forgotten, the inserted row is rolled back on close
RecordPublishedItem_NoCommit(link, title, published_date, wordpress_post_id, dbOk) ==
    ledger

\* faulty variant: the row gets the number of the row, not the id of the post
RecordPublishedItem_RowId(link, title, published_date, wordpress_post_id, dbOk) ==
    IF NO_POST THEN ledger
    ELSE IF ~dbOk THEN ledger
    ELSE IF PrimaryKeyViolation(link) THEN ledger
    ELSE ledger \cup {[link |-> link, title |-> title,
                       published_date |-> published_date,
                       wordpress_post_id |-> Cardinality(ledger) + 1]}

\* _record_published_item(link, title, published_date, wordpress_post_id):
\* the ledger afterwards; dbOk = FALSE: connect/execute raised another sqlite3.Error
RecordPublishedItem(link, title, published_date, wordpress_post_id, dbOk) ==
    IF NO_POST THEN ledger
    ELSE IF ~dbOk THEN ledger
    ELSE IF PrimaryKeyViolation(link) THEN ledger
    ELSE ledger \cup {[link |-> link, title |-> title,
                       published_date |-> published_date,
                       wordpress_post_id |-> wordpress_post_id]}

\* ---- create_post ---------------------------------------------------------
\* faulty variant: raise_for_status() forgotten, an error body is returned like a post
CreatePostResult_Mut(resp, rid) ==
    IF NO_POST THEN None
    ELSE CASE resp = "ok_noid"  -> [message |-> "x"]
           [] resp = "ok_nodict" -> [items |-> <<1>>]
           [] resp = "ok_falsy" -> [falsy |-> TRUE]
           [] OTHER             -> [id |-> rid]

\* Value returned by create_post for a response of the remote service.
CreatePostResult(resp, rid) ==
    IF NO_POST THEN None
    ELSE CASE resp = "ok_id"    -> [id |-> rid]
           [] resp = "ok_noid"  -> [message |-> "x"]
           [] resp = "ok_nodict" -> [items |-> <<1>>]
           [] resp = "ok_falsy" -> [falsy |-> TRUE]
           [] OTHER             -> None

\* Python truth value of create_post's result (`if result:`)
Truthy(r) == r # None /\ r # [falsy |-> TRUE]

HasId(r) == "id" \in DOMAIN r

\* the JSON body is an object (a dict); [items |-> ...] stands for a list, a
\* string or a number
IsDict(r) == "items" \notin DOMAIN r

\* result['id']: the exception it raises when there is no 'id' to read
NoIdException(r) == IF IsDict(r) THEN "KeyError" ELSE "TypeError"

\* ---- the loop of post_feed_items -----------------------------------------
\* faulty variant: reversed() forgotten, the loop runs in feed order
ReversedPos_Mut(n, k) == k

\* reversed(entries): the position in a feed of n entries of the k-th entry
\* the loop visits
ReversedPos(n, k) == n + 1 - k

\* position in feed.entries of the entry the loop of p is at
EntryPos(p) == ReversedPos(Len(feed[p]), idx[p])

\* `for entry in reversed(feed.entries)`: the entry the loop is at
Entry(p) == feed[p][EntryPos(p)]

\* pc after the loop body of the current entry ended
AfterEntry(p) == IF idx[p] < Len(feed[p]) THEN "filter" ELSE "done"

\* history: the create_post calls of p's current run, and their links
CallsWith(p, resps) == {i \in 1..Len(calls[p]) : calls[p][i].resp \in resps}

FailedLinks(p) == {calls[p][i].link : i \in CallsWith(p, {"failed"})}

\* no invocation of main() has started
InitRuns ==
    /\ runs = 0
    /\ pc = [p \in Procs |-> "idle"]
    /\ feed = [p \in Procs |-> <<>>]
    /\ idx = [p \in Procs |-> 0]
    /\ result = [p \in Procs |-> None]
    /\ calls = [p \in Procs |-> <<>>]
    /\ prevFailed = [p \in Procs |-> {}]
    /\ atStart = [p \in Procs |-> {}]
    /\ startupFault = [p \in Procs |-> "none"]
    /\ fetchOutcome = [p \in Procs |-> "none"]
    /\ queryError = [p \in Procs |-> FALSE]
    /\ filtered = [p \in Procs |-> 0]
    /\ escaped = [p \in Procs |-> "none"]

\* the transformer is not looked at
InitNoTransform ==
    /\ raw = <<>>
    /\ tags = <<>>
    /\ content = <<>>
    /\ post = None
    /\ tpc = "off"

Init ==
    /\ NO_POST = FALSE
    /\ missing = "none"
    /\ ledger = {}
    /\ posted = [l \in Links |-> 0]
    /\ InitRuns
    /\ InitNoTransform

\* What stops __init__ before _verify_auth ("none": nothing does):
\*   no_url      wordpress_url.rstrip('/') on None raises AttributeError
\*   no_db_path  sqlite3.connect(None) raises TypeError
\*   db_error    _init_database re-raises sqlite3.Error
ConstructorFault(dbOk) ==
    IF missing = "WORDPRESS_URL" THEN "no_url"
    ELSE IF missing = "DB_PATH" THEN "no_db_path"
    ELSE IF ~dbOk THEN "db_error"
    ELSE "none"

ConstructorException(fault) ==
    CASE fault = "no_url"     -> "AttributeError"
      [] fault = "no_db_path" -> "TypeError"
      [] fault = "db_error"   -> "sqlite3.Error"
      [] OTHER                -> "none"

\* main() starts and __init__ runs up to _init_database.
InitDatabase(p, dbOk) ==
    /\ pc[p] \in {"idle", "done"}
    /\ runs < MaxRuns
    /\ runs' = runs + 1
    /\ pc' = [pc EXCEPT ![p] = IF ConstructorFault(dbOk) = "none" THEN "auth" ELSE "done"]
    /\ escaped' = [escaped EXCEPT ![p] = ConstructorException(ConstructorFault(dbOk))]
    /\ feed' = [feed EXCEPT ![p] = <<>>]
    /\ idx' = [idx EXCEPT ![p] = 0]
    /\ result' = [result EXCEPT ![p] = None]
    /\ prevFailed' = [prevFailed EXCEPT ![p] = FailedLinks(p)]
    /\ calls' = [calls EXCEPT ![p] = <<>>]
    /\ atStart' = [atStart EXCEPT ![p] = ledger]
    /\ startupFault' = [startupFault EXCEPT ![p] = ConstructorFault(dbOk)]
    /\ fetchOutcome' = [fetchOutcome EXCEPT ![p] = "none"]
    /\ queryError' = [queryError EXCEPT ![p] = FALSE]
    /\ filtered' = [filtered EXCEPT ![p] = 0]
    /\ ledger' = IF ConstructorFault(dbOk) = "none"
                 THEN CreateTableIfNotExists(ledger)
                 ELSE ledger
    /\ UNCHANGED <<NO_POST, missing, tvars, posted>>

\* faulty variant: the status of the response is never looked at
VerifyAuthOk_Mut(resp) == resp # "transport_error"

\* __init__ runs _verify_auth: anything but a success response raises,
\* and main() catches the exception.
VerifyAuthOk(resp) == resp = "ok"

\* (create_auth_header formats a missing user name or password as the text
\* "None"; nothing in the code looks at whether they are set.)
VerifyAuth(p, resp) ==
    /\ pc[p] = "auth"
    /\ pc' = [pc EXCEPT ![p] = IF VerifyAuthOk(resp) THEN "fetch" ELSE "done"]
    /\ escaped' = [escaped EXCEPT ![p] =
                      IF VerifyAuthOk(resp) THEN "none"
                      ELSE IF resp = "401" THEN "Exception"
                      ELSE "RequestException"]
    /\ startupFault' = [startupFault EXCEPT ![p] = IF resp = "ok" THEN "none" ELSE resp]
    /\ UNCHANGED <<NO_POST, missing, tvars, ledger, posted, runs, feed, idx, result, calls,
                   prevFailed, atStart, fetchOutcome, queryError, filtered>>

\* faulty variant: feed.bozo is not looked at
FetchRssFeed_Mut(outcome, f) == IF outcome = "raises" THEN None ELSE [entries |-> f]

\* fetch_rss_feed: None when the parser flags the feed (bozo) or raises.
FetchRssFeed(outcome, f) == IF outcome = "feed" THEN [entries |-> f] ELSE None

\* post_feed_items up to the loop: fetch, `if not feed: return`.
\* feedparser.parse(None) gives no feed.
Fetch(p, outcome, f) ==
    /\ pc[p] = "fetch"
    /\ missing = "RSS_FEED_URL" => outcome # "feed"
    /\ fetchOutcome' = [fetchOutcome EXCEPT ![p] = outcome]
    /\ LET got == FetchRssFeed(outcome, f)
       IN  IF got = None
           THEN /\ pc' = [pc EXCEPT ![p] = "done"]
                /\ UNCHANGED <<feed, idx>>
           ELSE /\ feed' = [feed EXCEPT ![p] = got.entries]
                /\ idx' = [idx EXCEPT ![p] = 1]
                /\ pc' = [pc EXCEPT ![p] =
                             IF Len(got.entries) > 0 THEN "filter" ELSE "done"]
    /\ UNCHANGED <<NO_POST, missing, tvars, ledger, posted, runs, result, calls, prevFailed,
                   atStart, startupFault, queryError, filtered, escaped>>

\* loop body, first part: `if self._is_item_published(link): continue`
Filter(p, dbOk) ==
    /\ pc[p] = "filter"
    /\ filtered' = [filtered EXCEPT ![p] = @ + 1]
    /\ IF IsItemPublished(Entry(p).link, dbOk)
       THEN /\ pc' = [pc EXCEPT ![p] = AfterEntry(p)]
            /\ idx' = [idx EXCEPT ![p] = @ + 1]
            /\ UNCHANGED queryError
       ELSE /\ pc' = [pc EXCEPT ![p] = "publish"]
            /\ queryError' = [queryError EXCEPT ![p] = ~NO_POST /\ ~dbOk]
            /\ UNCHANGED idx
    /\ UNCHANGED <<NO_POST, missing, tvars, ledger, posted, runs, feed, result, calls,
                   prevFailed, atStart, startupFault, fetchOutcome, escaped>>

\* loop body, second part: create_post and `if result:` ... result['id']
Publish(p, resp, rid) ==
    /\ pc[p] = "publish"
    /\ LET e   == Entry(p)
           res == CreatePostResult(resp, rid)
           sent == ~NO_POST
       IN  /\ calls' = [calls EXCEPT ![p] =
                 Append(@, [pos |-> EntryPos(p), link |-> e.link, sent |-> sent,
                            resp |-> IF ~sent THEN "none"
                                     ELSE IF resp \in PostSuccess THEN resp
                                     ELSE "failed",
                            rec |-> "none"])]
           /\ posted' = IF sent /\ resp \in PostSuccess
                        THEN [posted EXCEPT ![e.link] = IF @ >= 2 THEN 2 ELSE @ + 1]
                        ELSE posted
           /\ result' = [result EXCEPT ![p] = IF Truthy(res) /\ HasId(res) THEN res ELSE None]
           /\ IF Truthy(res)
              THEN IF HasId(res)
                   THEN /\ pc' = [pc EXCEPT ![p] = "record"]
                        /\ UNCHANGED <<idx, escaped, queryError>>
                   ELSE \* result['id'] raises: out of post_feed_items
                        /\ pc' = [pc EXCEPT ![p] = "done"]
                        /\ escaped' = [escaped EXCEPT ![p] = NoIdException(res)]
                        /\ queryError' = [queryError EXCEPT ![p] = FALSE]
                        /\ UNCHANGED idx
              ELSE /\ pc' = [pc EXCEPT ![p] = AfterEntry(p)]
                   /\ idx' = [idx EXCEPT ![p] = @ + 1]
                   /\ queryError' = [queryError EXCEPT ![p] = FALSE]
                   /\ UNCHANGED escaped
    /\ UNCHANGED <<NO_POST, missing, tvars, ledger, runs, feed, prevFailed, atStart, startupFault,
                   fetchOutcome, filtered>>

\* loop body, third part: _record_published_item
Record(p, dbOk) ==
    /\ pc[p] = "record"
    /\ LET e == Entry(p)
       IN  /\ ledger' = RecordPublishedItem(e.link, e.title, e.published,
                                            result[p].id, dbOk)
           /\ calls' = [calls EXCEPT ![p][Len(calls[p])].rec =
                 IF NO_POST THEN "none"
                 ELSE IF ~dbOk THEN "db_error"
                 ELSE IF PrimaryKeyViolation(e.link) THEN "integrity_error"
                 ELSE "ok"]
    /\ pc' = [pc EXCEPT ![p] = AfterEntry(p)]
    /\ idx' = [idx EXCEPT ![p] = @ + 1]
    /\ result' = [result EXCEPT ![p] = None]    \* the local is dead after the call
    /\ queryError' = [queryError EXCEPT ![p] = FALSE]
    /\ UNCHANGED <<NO_POST, missing, tvars, posted, runs, feed, prevFailed, atStart,
                   startupFault, fetchOutcome, filtered, escaped>>

\* The answers to create_post: only an answer with an 'id' carries a post id.
PostAnswers ==
    {a \in [resp : PostResponses, rid : Ids] :
        a.resp # "ok_id" => \A i \in Ids : a.rid <= i}

\* The answers of the feed parser: a parser that raises returns no feed; a feed
\* it flags (bozo) can hold entries.
FetchAnswers(feeds) ==
    {a \in [outcome : FetchOutcomes, f : feeds] : a.outcome = "raises" => a.f = <<>>}

Step(p) ==
    \/ \E dbOk \in BOOLEAN : InitDatabase(p, dbOk)
    \/ \E resp \in AuthResponses : VerifyAuth(p, resp)
    \/ \E a \in FetchAnswers(Feeds) : Fetch(p, a.outcome, a.f)
    \/ \E dbOk \in BOOLEAN : Filter(p, dbOk)
    \/ \E a \in PostAnswers : Publish(p, a.resp, a.rid)
    \/ \E dbOk \in BOOLEAN : Record(p, dbOk)

\* Runs one after the other: the invocations of one scheduler, never overlapping.
Next == Step(1)

Spec == Init /\ [][Next]_vars

\* Two invocations that overlap (two scheduled runs started too close), each
\* running main() once, and both reading the same feed document.
SameFeed(p, f) ==
    \A q \in Procs \ {p} : fetchOutcome[q] = "feed" => f = feed[q]

\* main() of an invocation that runs once
InitDatabaseOnce(p, dbOk) ==
    /\ pc[p] = "idle"
    /\ InitDatabase(p, dbOk)

FetchSameFeed(p, outcome, f) ==
    /\ outcome # "raises" => SameFeed(p, f)
    /\ Fetch(p, outcome, f)

StepOverlap(p) ==
    \/ \E dbOk \in BOOLEAN : InitDatabaseOnce(p, dbOk)
    \/ \E resp \in AuthResponses : VerifyAuth(p, resp)
    \/ \E a \in FetchAnswers(OverlapFeeds) : FetchSameFeed(p, a.outcome, a.f)
    \/ \E dbOk \in BOOLEAN : Filter(p, dbOk)
    \/ \E a \in PostAnswers : Publish(p, a.resp, a.rid)
    \/ \E dbOk \in BOOLEAN : Record(p, dbOk)

NextOverlap == \E p \in Procs : StepOverlap(p)

SpecOverlap == Init /\ [][NextOverlap]_vars

\* The developer edits the line NO_POST=False / NO_POST=True of gateway.py
\* between two invocations (the flag is read when the module is loaded).
SetNoPost(v) ==
    /\ pc[1] \in {"idle", "done"}
    /\ v # NO_POST
    /\ NO_POST' = v
    /\ UNCHANGED <<missing, tvars, ledger, posted, runs, pc, feed, idx, result,
                   calls, prevFailed, atStart, startupFault, fetchOutcome,
                   queryError, filtered, escaped>>

\* Runs one after the other, with and without NO_POST.
NextDebug ==
    \/ Step(1)
    \/ \E v \in BOOLEAN : SetNoPost(v)

SpecDebug == Init /\ [][NextDebug]_vars

\* Runs one after the other with one environment variable not set.
InitConfig ==
    /\ NO_POST = FALSE
    /\ missing \in ConfigKeys
    /\ ledger = {}
    /\ posted = [l \in Links |-> 0]
    /\ InitRuns
    /\ InitNoTransform

SpecConfig == InitConfig /\ [][Next]_vars

\* ---- the transformer -----------------------------------------------------
\* A string is the sequence of its characters.  The raw contents are built from
\* the chunks "&", "amp", ";" and "x"; "&amp;amp;" is five chunks.
Chunks == {<<"&">>, <<"a", "m", "p">>, <<";">>, <<"x">>}

RECURSIVE Concats(_, _)
Concats(S, n) ==
    IF n = 0 THEN {<<>>}
    ELSE LET shorter == Concats(S, n - 1)
         IN  shorter \cup {s \o c : s \in shorter, c \in S}

Contents == Concats(Chunks, MaxChunks)

TagNames == {"rust", "go"}

TagLists == SeqsUpTo(TagNames, MaxTags)

\* html.entities.html5, the names that can be written with the letters a, m, p,
\* x and ";", and the character each stands for
Html5Keys == {<<"a", "m", "p">>, <<"a", "m", "p", ";">>, <<"a", "p", ";">>,
              <<"m", "a", "p", ";">>, <<"m", "p", ";">>, <<"p", "m", ";">>,
              <<"x", "m", "a", "p", ";">>}

Html5(name) ==
    CASE name = <<"a", "m", "p">>           -> <<"&">>
      [] name = <<"a", "m", "p", ";">>      -> <<"&">>
      [] name = <<"a", "p", ";">>           -> <<"U+2248">>
      [] name = <<"m", "a", "p", ";">>      -> <<"U+21A6">>
      [] name = <<"m", "p", ";">>           -> <<"U+2213">>
      [] name = <<"p", "m", ";">>           -> <<"U+00B1">>
      [] name = <<"x", "m", "a", "p", ";">> -> <<"U+27FC">>

\* html._replace_charref for a named reference s (the text after "&"): the
\* character of s, else the character of the longest prefix of s of two or more
\* characters that is a name followed by the rest of s, else "&" and s
ReplaceCharref(s) ==
    LET prefixes == {x \in 2..(Len(s) - 1) : SubSeq(s, 1, x) \in Html5Keys}
        longest  == CHOOSE x \in prefixes : \A y \in prefixes : y <= x
    IN  IF s \in Html5Keys THEN Html5(s)
        ELSE IF prefixes # {}
             THEN Html5(SubSeq(s, 1, longest)) \o SubSeq(s, longest + 1, Len(s))
             ELSE <<"&">> \o s

\* characters a reference name is made of: [^\t\n\f <&#;]
NameChar(c) == c \notin {"\t", "\n", "\f", " ", "<", "&", "#", ";"}

\* number of name characters s starts with
RECURSIVE NameLen(_)
NameLen(s) ==
    IF s = <<>> \/ ~NameChar(Head(s)) THEN 0 ELSE 1 + NameLen(Tail(s))

\* html.unescape(s): every match of &name;? , found from left to right, is
\* replaced by ReplaceCharref of the match.  (Numeric references need "#",
\* which the contents do not hold; names stay below the limit of 32 characters.)
RECURSIVE Unescape(_)
Unescape(s) ==
    IF s = <<>> THEN <<>>
    ELSE IF Head(s) # "&" THEN <<Head(s)>> \o Unescape(Tail(s))
    ELSE LET n    == NameLen(Tail(s))
             semi == Len(s) >= n + 2 /\ s[n + 2] = ";"
             m    == IF semi THEN n + 1 ELSE n
         IN  IF n = 0 THEN <<"&">> \o Unescape(Tail(s))
             ELSE ReplaceCharref(SubSeq(s, 2, m + 1))
                      \o Unescape(SubSeq(s, m + 2, Len(s)))

\* faulty variant: the content is decoded twice
CleanContent_Mut(c) == Unescape(Unescape(c))

\* _clean_content(content)
CleanContent(c) == Unescape(c)

\* the text an f-string puts for TAG_PREFIX; None is formatted as "None"
TAG_PREFIX == IF missing = "PINBOARD_TAG_PREFIX" THEN "None" ELSE "https://pinboard.in/u:x"

\* faulty variant: the separator is put after every item
RECURSIVE Join_Mut(_, _)
Join_Mut(sep, items) ==
    IF items = <<>> THEN <<>>
    ELSE Head(items) \o <<sep>> \o Join_Mut(sep, Tail(items))

\* sep.join(items) for a list of texts, each text a sequence of pieces
RECURSIVE Join(_, _)
Join(sep, items) ==
    IF items = <<>> THEN <<>>
    ELSE IF Len(items) = 1 THEN Head(items)
    ELSE Head(items) \o <<sep>> \o Join(sep, Tail(items))

\* the f-string of one tag link, as the sequence of its pieces
TagAnchor(tag) ==
    <<"<a class=\"delicioustag\" href=\"", TAG_PREFIX, "/t:", tag, "\">", tag, "</a>">>

\* tag_html of create_post_dict
TagHtml(tagList) == Join(" ", [k \in 1..Len(tagList) |-> TagAnchor(tagList[k])])

\* c holds one of the characters of S
HoldsAny(c, S) == \E i \in 1..Len(c) : c[i] \in S

\* urlfinder.sub(r'<\1>', content): a match of urlfinder needs a scheme with
\* ":", a user part with "@" or "www."; a content with none of ":", "@" and "."
\* is left as it is (text); for any other the result is the content with the
\* URLs found in it put in "<" ">", not worked out (urlfinder_sub)
Urlize(c) ==
    IF HoldsAny(c, {":", "@", "."}) THEN [urlfinder_sub |-> c] ELSE [text |-> c]

BlockquoteTag == <<"<", "b", "l", "o", "c", "k", "q", "u", "o", "t", "e", ">">>

BlockquoteMarked ==
    <<"<", "b", "l", "o", "c", "k", "q", "u", "o", "t", "e", " ", "m", "a", "r", "k", "d", "o", "w", "n", "=",
       "\"", "1", "\"", ">">>

\* re.sub(pat, rep, s) for a pattern that is a plain text: every occurrence of
\* pat, found from left to right, is replaced by rep
RECURSIVE ReSub(_, _, _)
ReSub(pat, rep, s) ==
    IF Len(s) < Len(pat) THEN s
    ELSE IF SubSeq(s, 1, Len(pat)) = pat
         THEN rep \o ReSub(pat, rep, SubSeq(s, Len(pat) + 1, Len(s)))
         ELSE <<Head(s)>> \o ReSub(pat, rep, Tail(s))

\* re.sub(r'<blockquote>', '<blockquote markdown="1">', content), applied to
\* what Urlize gave: worked out on a text, else the substitution applied to
\* the result of urlfinder.sub (blockquote_sub)
MarkBlockquotes(u) ==
    IF "text" \in DOMAIN u
    THEN [text |-> ReSub(BlockquoteTag, BlockquoteMarked, u.text)]
    ELSE [blockquote_sub |-> u]

\* markdown.markdown(content, extensions=['extra', 'sane_lists', 'md_in_html']):
\* the rendering of what MarkBlockquotes gave, not worked out
Markdown(u) == [markdown |-> u]

\* create_post_dict: title, status and content_with_source, the latter as the
\* sequence of its pieces
CreatePostDict(title, c, link, tagList, status) ==
    LET rendered == Markdown(MarkBlockquotes(Urlize(c)))
        tag_html == TagHtml(tagList)
    IN  [title   |-> title,
         content |-> <<"<ul><li><p>\n<a class=\"deliciouslink\" href=\"", link,
                       "\" title=\"", title, "\">", title, "</a></p>\n\n", rendered,
                       "\n\n<p class=\"taglist\">Tags: ">>
                     \o tag_html \o <<"</p></li></ul>">>,
         status  |-> status]

\* post_feed_items: content = self._clean_content(content)
Clean ==
    /\ tpc = "clean"
    /\ content' = CleanContent(raw)
    /\ tpc' = "dict"
    /\ UNCHANGED <<NO_POST, missing, raw, tags, post, ledger, posted, runs, pc,
                   feed, idx, result, calls, prevFailed, atStart, startupFault,
                   fetchOutcome, queryError, filtered, escaped>>

\* create_post: data = self.create_post_dict(title, content, link, tags, status)
BuildPost ==
    /\ tpc = "dict"
    /\ post' = CreatePostDict("t1", content, "a", tags, "publish")
    /\ tpc' = "done"
    /\ UNCHANGED <<NO_POST, missing, raw, tags, content, ledger, posted, runs, pc,
                   feed, idx, result, calls, prevFailed, atStart, startupFault,
                   fetchOutcome, queryError, filtered, escaped>>

\* The transformation of one entry, for every raw content and list of tags.
InitTransform ==
    /\ NO_POST = FALSE
    /\ missing \in {"none", "PINBOARD_TAG_PREFIX"}
    /\ ledger = {}
    /\ posted = [l \in Links |-> 0]
    /\ InitRuns
    /\ raw \in Contents
    /\ tags \in TagLists
    /\ content = <<>>
    /\ post = None
    /\ tpc = "clean"

NextTransform ==
    \/ Clean
    \/ BuildPost

SpecTransform == InitTransform /\ [][NextTransform]_vars

\* ---- properties -------------------------------------------------------------
LinksOf(rows) == {r.link : r \in rows}

CallIdx(p) == 1..Len(calls[p])

\* the invocation is between two entries of its loop, or outside the loop
BetweenEntries(p) == pc[p] \in {"idle", "auth", "fetch", "filter", "done"}

\* ---- C1 ----------------------------------------------------------------------
\* C1 as claimed: over any sequence of runs against the same ledger, the remote
\* service creates at most one post per link, whatever fails along the way.
C1_PostedAtMostOnce == \A l \in Links : posted[l] <= 1

\* C1 as amended: a post is created for a link only while the ledger holds no
\* row for that link, or after the existence query for the entry raised; so a
\* link is posted again only if an earlier success left no row or a query failed.
C1_PostedOnlyWithoutRowSeen ==
    [][\A l \in Links :
          posted'[l] > posted[l] => (~HasRow(l) \/ queryError[1])]_vars

\* witness of C1: a later run met a link that has a row and was posted once,
\* and ended without a create_post call for it
C1_Witness ==
    /\ runs = 2
    /\ pc[1] = "done"
    /\ \E k \in 1..Len(feed[1]) :
          LET l == feed[1][k].link
          IN  /\ l \in LinksOf(atStart[1])
              /\ posted[l] = 1
              /\ filtered[1] = Len(feed[1])
              /\ \A i \in CallIdx(1) : calls[1][i].link # l

\* ---- C2 ----------------------------------------------------------------------
\* C2 as claimed: between entries, a row exists for a link if and only if a
\* publish attempt for that link has succeeded.
C2_RowIffPublished ==
    BetweenEntries(1) => \A l \in Links : HasRow(l) <=> posted[l] > 0

\* C2 as amended: a row exists for a link only if a publish attempt for that link
\* has succeeded, and a row inserted in this run comes from a call of this run
\* that succeeded and whose insert succeeded; a failed attempt inserts no row.
C2_RowOnlyIfPublished ==
    \A l \in Links :
        HasRow(l) =>
            /\ posted[l] > 0
            /\ l \notin LinksOf(atStart[1]) =>
                  \E i \in CallIdx(1) :
                      /\ calls[1][i].link = l
                      /\ calls[1][i].resp = "ok_id"
                      /\ calls[1][i].rec = "ok"

\* witness of C2: a run ended in which one link's attempt failed and left no
\* row while another link's attempt succeeded and left its row
C2_Witness ==
    /\ pc[1] = "done"
    /\ \E i, j \in CallIdx(1) :
          /\ calls[1][i].resp = "failed"
          /\ ~HasRow(calls[1][i].link)
          /\ calls[1][j].resp = "ok_id"
          /\ calls[1][j].rec = "ok"
          /\ HasRow(calls[1][j].link)

\* ---- C3 ----------------------------------------------------------------------
\* C3: a run makes no create_post call for a link that had a row when the run
\* started, and the ledger holds exactly one row for that link when the run ends.
C3_NoCallForRecordedLink ==
    /\ \A i \in CallIdx(1) : calls[1][i].link \notin LinksOf(atStart[1])
    /\ pc[1] = "done" =>
          \A l \in LinksOf(atStart[1]) : Cardinality(RowsFor(l)) = 1

\* ---- C4 ----------------------------------------------------------------------
\* C4: within a run the create_post calls are made in the reverse of feed order:
\* each call is for an entry that stands in the feed before the entries of all
\* earlier calls, and every call is for the entry at its position.
C4_ReverseFeedOrder ==
    /\ \A i, j \in CallIdx(1) : i < j => calls[1][i].pos > calls[1][j].pos
    /\ \A i \in CallIdx(1) :
          /\ calls[1][i].pos \in 1..Len(feed[1])
          /\ calls[1][i].link = feed[1][calls[1][i].pos].link

\* witness of C4: a run ended that submitted every entry of a feed of at least
\* two entries, the last entry of the feed first and the first entry last
C4_Witness ==
    /\ pc[1] = "done"
    /\ Len(feed[1]) >= 2
    /\ Len(calls[1]) = Len(feed[1])
    /\ calls[1][1].pos = Len(feed[1])
    /\ calls[1][Len(calls[1])].pos = 1

\* ---- C5 ----------------------------------------------------------------------
\* C5 as claimed: when in one run create_post fails for entry A and returns a
\* post for entry B (different links, neither in the ledger at the start), then
\* at the end of the run B's link has a row and A's link has none.
C5_FailureIsolation ==
    pc[1] = "done" =>
        \A i, j \in CallIdx(1) :
            ( /\ calls[1][i].resp = "failed"
              /\ calls[1][j].resp = "ok_id"
              /\ calls[1][i].link # calls[1][j].link
              /\ calls[1][i].link \notin LinksOf(atStart[1])
              /\ calls[1][j].link \notin LinksOf(atStart[1]) )
            => (HasRow(calls[1][j].link) /\ ~HasRow(calls[1][i].link))

\* C5 as amended: in that case B's link has a row at the end of the run unless
\* B's insert raised a database error, and A's link has no row unless another
\* entry with A's link was published in the run.
C5_FailureIsolationUnlessInsertFails ==
    pc[1] = "done" =>
        \A i, j \in CallIdx(1) :
            ( /\ calls[1][i].resp = "failed"
              /\ calls[1][j].resp = "ok_id"
              /\ calls[1][i].link # calls[1][j].link
              /\ calls[1][i].link \notin LinksOf(atStart[1])
              /\ calls[1][j].link \notin LinksOf(atStart[1]) )
            => /\ calls[1][j].rec # "db_error" => HasRow(calls[1][j].link)
               /\ (\A k \in CallIdx(1) :
                      calls[1][k].link = calls[1][i].link => calls[1][k].resp = "failed")
                  => ~HasRow(calls[1][i].link)

\* witness of C5: a run ended in which A failed first and B was then published
\* and recorded
C5_Witness ==
    /\ pc[1] = "done"
    /\ Len(calls[1]) = 2
    /\ calls[1][1].resp = "failed"
    /\ calls[1][2].resp = "ok_id"
    /\ calls[1][2].rec = "ok"
    /\ calls[1][1].link # calls[1][2].link
    /\ HasRow(calls[1][2].link)
    /\ ~HasRow(calls[1][1].link)

\* ---- C6 ----------------------------------------------------------------------
\* C6: when the credential check answers 401, another error status or a transport
\* error, or the store cannot be initialised, the invocation ends without a feed
\* fetch, an existence check, a create_post call or a change of the ledger.
C6_FatalStartup ==
    startupFault[1] # "none" =>
        /\ pc[1] = "done"
        /\ escaped[1] # "none"
        /\ fetchOutcome[1] = "none"
        /\ filtered[1] = 0
        /\ calls[1] = <<>>
        /\ ledger = atStart[1]

\* witness of C6: after a run that recorded a post, a run got a 401 and ended
C6_Witness ==
    /\ startupFault[1] = "401"
    /\ pc[1] = "done"
    /\ runs = 2
    /\ ledger # {}

\* ---- C7 ----------------------------------------------------------------------
\* C7: when the parser flags the feed as malformed or raises, the run ends with
\* no entry filtered or submitted, the ledger as at the start, and no exception
\* reaching main().
C7_FetchFailure ==
    fetchOutcome[1] \in {"bozo", "raises"} =>
        /\ pc[1] = "done"
        /\ filtered[1] = 0
        /\ calls[1] = <<>>
        /\ ledger = atStart[1]
        /\ escaped[1] = "none"

\* witness of C7: after a run that recorded a post, the feed of a run was flagged
C7_Witness ==
    /\ fetchOutcome[1] = "bozo"
    /\ pc[1] = "done"
    /\ runs = 2
    /\ ledger # {}

\* ---- C8 ----------------------------------------------------------------------
\* C8: an entry whose create_post failed is not submitted again in the same run,
\* and a link whose create_post failed in the previous run is submitted again by
\* a run that fetched a feed holding the link while the ledger had no row for it.
C8_RetryOnNextRun ==
    /\ \A i, j \in CallIdx(1) : i # j => calls[1][i].pos # calls[1][j].pos
    /\ (pc[1] = "done" /\ fetchOutcome[1] = "feed") =>
          \A k \in 1..Len(feed[1]) :
              ( /\ feed[1][k].link \in prevFailed[1]
                /\ feed[1][k].link \notin LinksOf(atStart[1]) )
              => \E i \in CallIdx(1) : calls[1][i].link = feed[1][k].link

\* ---- C9 ----------------------------------------------------------------------
\* C9 as claimed: when two invocations overlap, no link gets a post from both.
C9_NoDoublePublish ==
    \A i \in CallIdx(1), j \in CallIdx(2) :
        ~ ( /\ calls[1][i].link = calls[2][j].link
            /\ calls[1][i].resp = "ok_id"
            /\ calls[2][j].resp = "ok_id" )

\* C9 as amended: when two invocations overlap, the ledger never holds two rows
\* for one link, and of two inserts for the same link, one by each invocation,
\* at most one succeeds.
C9_OneRowPerLink ==
    /\ \A l \in Links : Cardinality(RowsFor(l)) <= 1
    /\ \A i \in CallIdx(1), j \in CallIdx(2) :
          calls[1][i].link = calls[2][j].link =>
              ~(calls[1][i].rec = "ok" /\ calls[2][j].rec = "ok")

\* witness of C9: both invocations got a post for the same link, the insert of
\* one succeeded, the insert of the other was rejected, and one row exists
C9_Witness ==
    \E i \in CallIdx(1), j \in CallIdx(2) :
        /\ calls[1][i].link = calls[2][j].link
        /\ calls[1][i].resp = "ok_id"
        /\ calls[2][j].resp = "ok_id"
        /\ {calls[1][i].rec, calls[2][j].rec} = {"ok", "integrity_error"}
        /\ Cardinality(RowsFor(calls[1][i].link)) = 1

\* ---- C10 ---------------------------------------------------------------------
\* C10: an insert for a link that already has a row changes nothing in the
\* ledger, which keeps exactly one row for the link, raises nothing, and the
\* invocation goes on with the next entry of its loop.
C10_DuplicateInsertNonFatal ==
    [][\A p \in Procs :
          (pc[p] = "record" /\ pc'[p] # "record" /\ HasRow(Entry(p).link)) =>
              /\ ledger' = ledger
              /\ Cardinality({r \in ledger' : r.link = Entry(p).link}) = 1
              /\ escaped'[p] = "none"
              /\ pc'[p] = AfterEntry(p)
              /\ idx'[p] = idx[p] + 1]_vars

\* witness of C10: an insert of an invocation was rejected for the primary key,
\* one row exists for the link, and the invocation submitted a later entry
C10_Witness ==
    \E p \in Procs : \E i \in CallIdx(p) :
        /\ calls[p][i].rec = "integrity_error"
        /\ i < Len(calls[p])
        /\ Cardinality(RowsFor(calls[p][i].link)) = 1

\* ---- C11 ---------------------------------------------------------------------
\* C11: create_post raises nothing and returns a failure value for a 401, another
\* error status and a transport error, and for every success status it returns a
\* value that carries the post id, so that the caller goes on to record the post.
C11_CreatePostOutcome ==
    \A i \in CallIdx(1) :
        LET last == (i = Len(calls[1])) IN
        /\ calls[1][i].resp = "failed" =>
              /\ calls[1][i].rec = "none"
              /\ ~(last /\ pc[1] = "record")
              /\ escaped[1] = "none"
        /\ calls[1][i].resp \in PostSuccess =>
              IF last /\ pc[1] = "record"
              THEN Truthy(result[1]) /\ HasId(result[1])
              ELSE calls[1][i].rec # "none"

\* ---- C12 ---------------------------------------------------------------------
\* C12: when one of the six settings is not set, the invocation fails during
\* startup: it stops in __init__ with the fault reported, before any feed fetch
\* and before any create_post call.
C12_ConfigFailFast ==
    missing \in ConfigKeys =>
        \/ pc[1] \in {"idle", "auth"}
        \/ /\ pc[1] = "done"
           /\ startupFault[1] # "none"
           /\ fetchOutcome[1] = "none"
           /\ calls[1] = <<>>

\* ---- C13 ---------------------------------------------------------------------
\* C13: with persistence enabled, the existence check of an entry reports
\* "published" (the entry is skipped) if and only if the ledger holds a row for
\* the entry's link, also when the query of the store fails.
C13_IsPublishedIffRow ==
    [][(~NO_POST /\ pc[1] = "filter" /\ filtered'[1] = filtered[1] + 1) =>
          (pc'[1] # "publish" <=> HasRow(Entry(1).link))]_vars

\* ---- C14 ---------------------------------------------------------------------
\* C14: while NO_POST is set, no step changes the ledger, no request is sent to
\* the remote service and no post is created, the existence check of every
\* entry reports "not published", and a run that fetched a feed ends having
\* transformed every entry of it.
C14_DryRunBypass ==
    [][NO_POST =>
          /\ ledger' = ledger
          /\ posted' = posted
          /\ (pc[1] = "filter" /\ filtered'[1] = filtered[1] + 1) => pc'[1] = "publish"
          /\ \A i \in 1..Len(calls'[1]) : i > Len(calls[1]) => ~calls'[1][i].sent
          /\ (pc[1] # "done" /\ pc'[1] = "done" /\ fetchOutcome'[1] = "feed") =>
                /\ Len(calls'[1]) = Len(feed'[1])
                /\ escaped'[1] = "none"]_vars

\* witness of C14: after a run that recorded a post, a run with NO_POST set ended
\* that transformed every entry of its feed, among them one whose link has a
\* row, sent nothing, and left the ledger as it was
C14_Witness ==
    /\ NO_POST
    /\ runs = 2
    /\ pc[1] = "done"
    /\ atStart[1] # {}
    /\ ledger = atStart[1]
    /\ Len(feed[1]) >= 1
    /\ Len(calls[1]) = Len(feed[1])
    /\ \A i \in CallIdx(1) : ~calls[1][i].sent
    /\ \E i \in CallIdx(1) : HasRow(calls[1][i].link)

\* ---- C15 ---------------------------------------------------------------------
\* a character reference that html.unescape replaces starts somewhere in s
HasRef(s) ==
    \E i \in 1..Len(s) :
        /\ s[i] = "&"
        /\ \E name \in Html5Keys :
              /\ i + Len(name) <= Len(s)
              /\ SubSeq(s, i + 1, i + Len(name)) = name

\* C15 as claimed: decoding is idempotent: decoding the decoded content again
\* gives the decoded content, for every raw content.
C15_DecodeIdempotent ==
    tpc # "clean" => Unescape(content) = content

\* C15 as amended: the content is decoded exactly once; "&amp;amp;" becomes
\* "&amp;", a content without "&" stays as it is, and a second decoding would
\* leave the decoded content alone exactly when it holds no character reference.
C15_DecodeOnce ==
    tpc # "clean" =>
        /\ raw = <<"&", "a", "m", "p", ";", "a", "m", "p", ";">> =>
              content = <<"&", "a", "m", "p", ";">>
        /\ (\A i \in 1..Len(raw) : raw[i] # "&") => content = raw
        /\ Unescape(content) = content <=> ~HasRef(content)

\* witness of C15: the double-escaped "&amp;amp;" was decoded to "&amp;", which
\* a second decoding would turn into "&"
C15_Witness ==
    /\ tpc = "done"
    /\ raw = <<"&", "a", "m", "p", ";", "a", "m", "p", ";">>
    /\ content = <<"&", "a", "m", "p", ";">>
    /\ Unescape(content) = <<"&">>

\* ---- C16 ---------------------------------------------------------------------
\* the pieces of a content between the label "Tags: " and the closing markup
TagFragment(c) == SubSeq(c, 10, Len(c) - 1)

\* C16: the tag fragment is one anchor per tag, in the order of the tags, each
\* with the href TAG_PREFIX "/t:" tag and the tag as its text, and one space
\* between two anchors; without tags the fragment is empty; the content ends
\* with the label "Tags: ", the fragment and the closing markup.
C16_TagFragment ==
    tpc = "done" =>
        LET c == post.content
            h == TagFragment(c)
            n == Len(tags)
        IN  /\ Len(h) = IF n = 0 THEN 0 ELSE 8 * n - 1
            /\ \A k \in 1..n :
                  LET o == 8 * (k - 1)
                  IN  /\ h[o + 1] = "<a class=\"delicioustag\" href=\""
                      /\ h[o + 2] = TAG_PREFIX
                      /\ h[o + 3] = "/t:"
                      /\ h[o + 4] = tags[k]
                      /\ h[o + 5] = "\">"
                      /\ h[o + 6] = tags[k]
                      /\ h[o + 7] = "</a>"
                      /\ k < n => h[o + 8] = " "
            /\ c[9] = "\n\n<p class=\"taglist\">Tags: "
            /\ c[Len(c)] = "</p></li></ul>"

\* witness of C16: a post was built for two different tags, its fragment being
\* two anchors with one space between them
C16_Witness ==
    /\ tpc = "done"
    /\ Len(tags) = 2
    /\ tags[1] # tags[2]
    /\ Len(TagFragment(post.content)) = 15
    /\ TagFragment(post.content)[4] = tags[1]
    /\ TagFragment(post.content)[8] = " "
    /\ TagFragment(post.content)[12] = tags[2]

\* ---- C17 ---------------------------------------------------------------------
\* C17: a row is inserted only by the step that follows a create_post call of
\* the same run that returned a post for the entry at hand, before another entry
\* is filtered; the row holds the entry's link, title and date and the id that
\* call returned; an insert that fails changes neither the posts created nor the
\* calls made, and the loop goes on.
C17_RecordFollowsPublish ==
    [][/\ ledger' # ledger =>
             /\ pc[1] = "record"
             /\ calls[1] # <<>>
             /\ calls[1][Len(calls[1])].resp = "ok_id"
             /\ calls[1][Len(calls[1])].pos = EntryPos(1)
             /\ calls[1][Len(calls[1])].link = Entry(1).link
             /\ HasId(result[1])
             /\ ledger' = ledger \cup
                   {[link |-> Entry(1).link, title |-> Entry(1).title,
                     published_date |-> Entry(1).published,
                     wordpress_post_id |-> result[1].id]}
             /\ filtered'[1] = filtered[1]
       /\ (pc[1] = "record" /\ pc'[1] # "record" /\ ledger' = ledger) =>
             /\ posted' = posted
             /\ Len(calls'[1]) = Len(calls[1])
             /\ pc'[1] = AfterEntry(1)
             /\ escaped'[1] = "none"]_vars

\* witness of C17: a run ended in which one post was recorded and the insert of
\* another post failed, that post staying created and unrecorded
C17_Witness ==
    /\ pc[1] = "done"
    /\ \E i, j \in CallIdx(1) :
          /\ calls[1][i].rec = "ok"
          /\ \E r \in RowsFor(calls[1][i].link) : r.wordpress_post_id \in Ids
          /\ calls[1][j].resp = "ok_id"
          /\ calls[1][j].rec = "db_error"
          /\ posted[calls[1][j].link] = 1
          /\ ~HasRow(calls[1][j].link)

\* ---- C18 ---------------------------------------------------------------------
\* C18: the rows of the ledger are append-only: no step (initialising the store,
\* an existence check, an insert, an insert that fails) removes a row or changes
\* the title, date or post id of a row, and a link never has two rows.
C18_AppendOnly ==
    [][/\ ledger \subseteq ledger'
       /\ \A l \in Links : Cardinality({r \in ledger' : r.link = l}) <= 1]_vars

\* witness of C18: a later run initialised a store holding a row, tried to insert
\* a row for a recorded link, and ended with the rows it started with still there
C18_Witness ==
    /\ runs = 2
    /\ pc[1] = "done"
    /\ atStart[1] # {}
    /\ atStart[1] \subseteq ledger
    /\ \E i \in CallIdx(1) :
          /\ calls[1][i].rec = "integrity_error"
          /\ calls[1][i].link \in LinksOf(atStart[1])

\* ---- C19 ---------------------------------------------------------------------
\* C19: a run that fetched a feed ends without an exception having left the
\* loop, having reached every entry of the feed, and with exactly one
\* create_post call for every entry whose link had no row when the entry was
\* reached, whatever create_post answered for the entries before it.
C19_EveryEntryHandled ==
    (pc[1] = "done" /\ fetchOutcome[1] = "feed") =>
        /\ escaped[1] = "none"
        /\ filtered[1] = Len(feed[1])
        /\ \A k \in 1..Len(feed[1]) :
              LET made == {i \in CallIdx(1) : calls[1][i].pos = k}
              IN  \/ Cardinality(made) = 1
                  \/ made = {} /\ HasRow(feed[1][k].link)

\* ---- C20 ---------------------------------------------------------------------
\* C20: an entry without a link is handled under the empty key "": it is
\* submitted exactly when the ledger has no row for "", a post created for it
\* is followed by the insert, the row inserted has the link "", and from then on
\* every other entry without a link, in this run and in later runs, is skipped.
C20_EmptyKey ==
    [][(pc[1] \in {"filter", "publish", "record"} /\ Entry(1).link = "") =>
          /\ (pc[1] = "filter" /\ filtered'[1] = filtered[1] + 1) =>
                (pc'[1] = "publish" <=> ~HasRow(""))
          /\ ( /\ pc[1] = "publish"
               /\ Len(calls'[1]) > Len(calls[1])
               /\ calls'[1][Len(calls'[1])].resp \in PostSuccess ) =>
                pc'[1] = "record"
          /\ (pc[1] = "record" /\ ledger' # ledger) =>
                \A r \in ledger' \ ledger : r.link = ""]_vars

====
